---- MODULE Spec2Model ----
(***************************************************************************)
(* postbuild: a post-build HTML asset injector.                            *)
(*                                                                         *)
(* Text is modelled as a sequence of tokens.  A token is a record          *)
(*   [k |-> kind, c |-> payload, o |-> origin]                             *)
(* where kind is one of the marker comments the regular expressions of     *)
(* the pipeline look for ("inject:js", "inject:css", "endinject",          *)
(* "inject:git-hash", "remove", "endremove"), "comment" (the revision      *)
(* comment the pipeline writes), "nl" (the newline of Array.join) or       *)
(* "text" (any run of characters holding no marker).  The payload is the   *)
(* sequence of characters that distinguishes tokens of one kind: the       *)
(* condition of a remove marker, the revision of a comment, the text.      *)
(* The origin records who wrote the token: "in" (the input file), "js" or  *)
(* "css" (a generated fragment) or "rev" (the revision comment).  The      *)
(* program never reads the origin; only the properties do.                 *)
(*                                                                         *)
(* replaceStream is applied to documents that arrive in one chunk (files   *)
(* below the 64 KiB highWaterMark of fs.createReadStream), where it is     *)
(* the global regular-expression replacement of the whole text.            *)
(***************************************************************************)
EXTENDS Integers, Sequences, FiniteSets, TLC

VARIABLES
    pc,              \* position of the run in the top-level sequence
    options,         \* the parsed command line (commander's opts())
    jsFiles,         \* generated JS fragments   (postbuild.mjs:126)
    cssFiles,        \* generated CSS fragments  (postbuild.mjs:136)
    removeCondition, \* postbuild.mjs:146
    revision,        \* postbuild.mjs:151
    input,           \* the text the read stream delivers in this run
    stream,          \* the text between two stages of the pipe
    stageIn,         \* the text the stage that ran last had read
    runs,            \* how many times the tool has been started on the text
    disk,            \* the file system under the working directory
    extension,       \* the extension a pattern is resolved for
    listed,          \* patternToFileNames of a directory
    globbed,         \* patternToFileNames of the glob over that directory
    env,             \* which source file runs, whether git answers, the disk at the start
    exitCode,        \* process exit code, -1 while the process runs
    stderr,          \* what the process wrote to standard error
    fileNames,       \* the fileNames of the two tag generators
    rs,              \* the fs.ReadStream of the input file
    ws               \* the fs.WriteStream of the output file

pipeVars == << input, stream, stageIn, runs >>

resolveVars == << extension, listed, globbed >>

runVars == << env, exitCode, stderr, fileNames, rs, ws >>

vars == << pc, options, jsFiles, cssFiles, removeCondition, revision,
           input, stream, stageIn, runs, disk, extension, listed, globbed,
           env, exitCode, stderr, fileNames, rs, ws >>

----------------------------------------------------------------------------
(* Bounds *)

\* longest input document of each family of documents (in tokens)
MaxInjectLen == 4
MaxRemoveLen == 4
MaxMixLen == 4
MaxInlineLen == 3

----------------------------------------------------------------------------
(* Tokens *)

Tok(k, c, o) == [k |-> k, c |-> c, o |-> o]

TX == Tok("text", <<"x">>, "in")
IJ == Tok("inject:js", <<>>, "in")
IC == Tok("inject:css", <<>>, "in")
EI == Tok("endinject", <<>>, "in")
GH == Tok("inject:git-hash", <<>>, "in")
RM(c) == Tok("remove", c, "in")
ER == Tok("endremove", <<>>, "in")

\* the same text written by a fragment of origin o
From(o, s) == [i \in 1..Len(s) |-> Tok(s[i].k, s[i].c, o)]

\* the characters of a text, whoever wrote them
Plain(s) == From("in", s)

SeqsUpTo(S, n) == UNION {[1..m -> S] : m \in 0..n}

Min(S) == CHOOSE x \in S : \A y \in S : x <= y

----------------------------------------------------------------------------
(* The regular expressions of the pipeline *)

\* new RegExp(`... remove:${removeCondition} -->`): the condition is spliced
\* into the source of the expression unescaped, so its "." matches any one
\* character of a marker's condition; every other character matches itself.
ReMatch(pat, str) ==
    /\ Len(pat) = Len(str)
    /\ \A i \in 1..Len(pat) : pat[i] = "." \/ pat[i] = str[i]

\* the condition left out of the expression: any remove marker opens a match
StartsAtAnyCondition(st, cond, t) ==
    IF st = "remove" THEN t.k = "remove" ELSE t.k = st

\* the four expressions: st.start is the kind of the first group
StartsAt(st, cond, t) ==
    IF st = "remove" THEN t.k = "remove" /\ ReMatch(cond, t.c)
    ELSE t.k = st

EndKind(st) == IF st = "remove" THEN "endremove" ELSE "endinject"

\* a greedy ([\s\S]*) in place of ([\s\S]*?): the match runs to the last end marker
ExecGreedy(s, p, st, cond) ==
    LET I == {i \in p..Len(s) :
                /\ StartsAt(st, cond, s[i])
                /\ \E j \in (i+1)..Len(s) : s[j].k = EndKind(st)}
    IN IF I = {} THEN <<0, 0>>
       ELSE LET i == Min(I)
            IN <<i, CHOOSE j \in (i+1)..Len(s) :
                      /\ s[j].k = EndKind(st)
                      /\ \A h \in (j+1)..Len(s) : s[h].k # EndKind(st)>>

\* regex.exec from position p: the leftmost start marker that some end marker
\* follows, and ([\s\S]*?) the shortest text up to an end marker.
\* <<i, j>> are the first and last token of the match, <<0, 0>> is null.
Exec(s, p, st, cond) ==
    LET I == {i \in p..Len(s) :
                /\ StartsAt(st, cond, s[i])
                /\ \E j \in (i+1)..Len(s) : s[j].k = EndKind(st)}
    IN IF I = {} THEN <<0, 0>>
       ELSE LET i == Min(I)
            IN <<i, Min({j \in (i+1)..Len(s) : s[j].k = EndKind(st)})>>

RECURSIVE Join(_, _)
\* Array.prototype.join('\n') of the fragments of origin o
Join(frags, o) ==
    IF Len(frags) = 0 THEN <<>>
    ELSE IF Len(frags) = 1 THEN frags[1]
    ELSE frags[1] \o <<Tok("nl", <<>>, o)>> \o Join(Tail(frags), o)

\* the callbacks without their `: $0` branch
ReplacementAlways(st, files, m) ==
    IF st = "remove" THEN <<>>
    ELSE Join(files, IF st = "inject:js" THEN "js" ELSE "css")

\* the replacement callbacks of the two inject stages, and '' of the remove stage
Replacement(st, files, m) ==
    IF st = "remove" THEN <<>>
    ELSE IF Len(files) > 0
         THEN Join(files, IF st = "inject:js" THEN "js" ELSE "css")
         ELSE m

RECURSIVE ReplaceFirstOnly(_, _, _, _, _)
\* the expression without its g flag: the first match alone is replaced
ReplaceFirstOnly(s, p, st, cond, files) ==
    LET m == Exec(s, p, st, cond)
    IN IF m[1] = 0 THEN SubSeq(s, p, Len(s))
       ELSE SubSeq(s, p, m[1] - 1)
            \o Replacement(st, files, SubSeq(s, m[1], m[2]))
            \o SubSeq(s, m[2] + 1, Len(s))

RECURSIVE ReplaceRescanning(_, _, _, _, _)
\* a loop that matches again from the start of the text it has just inserted
ReplaceRescanning(s, p, st, cond, files) ==
    LET m == Exec(s, p, st, cond)
    IN IF m[1] = 0 THEN SubSeq(s, p, Len(s))
       ELSE IF st # "remove" /\ Len(files) = 0
            THEN SubSeq(s, p, m[2]) \o ReplaceRescanning(s, m[2] + 1, st, cond, files)
            ELSE SubSeq(s, p, m[1] - 1)
                 \o ReplaceRescanning(Replacement(st, files, SubSeq(s, m[1], m[2]))
                                        \o SubSeq(s, m[2] + 1, Len(s)),
                                      1, st, cond, files)

RECURSIVE ReplaceFrom(_, _, _, _, _)
\* the exec loop of replaceStream over one chunk: g flag, lastIndex after each match
ReplaceFrom(s, p, st, cond, files) ==
    LET m == Exec(s, p, st, cond)
    IN IF m[1] = 0 THEN SubSeq(s, p, Len(s))
       ELSE SubSeq(s, p, m[1] - 1)
            \o Replacement(st, files, SubSeq(s, m[1], m[2]))
            \o ReplaceFrom(s, m[2] + 1, st, cond, files)

ReplaceJs(s, files) == ReplaceFrom(s, 1, "inject:js", <<>>, files)

ReplaceCss(s, files) == ReplaceFrom(s, 1, "inject:css", <<>>, files)

\* replaceStream(/(<!-- inject:git-hash -->)/gm, `<!-- ${revision} -->`)
ReplaceHash(s, rev) ==
    [i \in 1..Len(s) |->
        IF s[i].k = "inject:git-hash" THEN Tok("comment", rev, "rev") ELSE s[i]]

ReplaceRemove(s, cond) == ReplaceFrom(s, 1, "remove", cond, <<>>)

\* the whole pipe, stage after stage
Transform(s, js, css, rev, cond) ==
    ReplaceRemove(ReplaceHash(ReplaceCss(ReplaceJs(s, js), css), rev), cond)

----------------------------------------------------------------------------
(* Option handling *)

\* options.remove is the text of --remove as its colon-separated segments;
\* <<>> is the option not given.  split(':').pop() is the last segment.
RemoveConditionOf(rem) ==
    IF Len(rem) = 0 \/ (Len(rem) = 1 /\ Len(rem[1]) = 0) THEN <<>>
    ELSE rem[Len(rem)]

\* promisify(cp.exec)('git rev-parse HEAD'): resolves to the object
\* { stdout, stderr }, rejects when git fails
GitRevParse(git) ==
    IF git = "ok" THEN [ok |-> TRUE, val |-> [stdout |-> <<"h", "\n">>, stderr |-> <<>>]]
    ELSE [ok |-> FALSE, val |-> <<>>]

\* Object.prototype.toString of the object exec resolves to
ObjectToString(o) == <<"[object Object]">>

RECURSIVE Trim(_)
\* String.prototype.trim
Trim(t) ==
    IF Len(t) = 0 THEN t
    ELSE IF Head(t) \in {" ", "\n"} THEN Trim(Tail(t))
    ELSE IF t[Len(t)] \in {" ", "\n"} THEN Trim(SubSeq(t, 1, Len(t) - 1))
    ELSE t

\* (await promisify(cp.exec)('git rev-parse HEAD')).toString().trim()
HeadRevision(git) == Trim(ObjectToString(GitRevParse(git).val))

----------------------------------------------------------------------------
(* Paths and the file system *)

\* A path or pattern is the sequence of its units: the names and the "/"
\* between them ("d/a.css" is <<"d", "/", "a.css">>), so that slice() and
\* join() act on it as they act on the string.  The disk maps the paths
\* that exist to [type |-> "file" | "dir" | "other", content |-> text].

File(content) == [type |-> "file", content |-> content]
Dir == [type |-> "dir", content |-> <<>>]

\* String.prototype.endsWith for the names and extensions of the model
EndsWith(name, ext) ==
    \/ ext = ".css" /\ name \in {"a.css", "c.css", ".h.css", "t.css"}
    \/ ext = ".js" /\ name \in {"a.js", "b.js"}

\* a name that starts with a dot
Hidden(name) == name \in {".h.css"}

\* the names of a path, without the separators
Names(p) == SelectSeq(p, LAMBDA u : u # "/")

RECURSIVE SeqOf(_)
\* the members of a set in the order an enumeration yields them: fixed, not sorted
SeqOf(S) ==
    IF S = {} THEN <<>>
    ELSE LET x == CHOOSE x \in S : TRUE IN <<x>> \o SeqOf(S \ {x})

Range(f) == {f[i] : i \in DOMAIN f}

\* path.join(dir, file) of node:path/posix
PathJoin(dir, file) ==
    IF Len(dir) > 0 /\ dir[Len(dir)] = "/" THEN dir \o <<file>>
    ELSE dir \o <<"/", file>>

\* fsPromise.readdir(dir): the names of the immediate entries, dot files included
Readdir(d, dir) ==
    SeqOf({q[Len(q)] : q \in {q \in DOMAIN d :
              /\ Len(q) = Len(dir) + 2
              /\ SubSeq(q, 1, Len(dir)) = dir
              /\ q[Len(dir) + 1] = "/"}})

\* hasMagic(pattern) of glob
HasMagic(pattern) == \E i \in 1..Len(pattern) : pattern[i] \in {"**", "*.css", "*.js"}

\* pattern.replace(/^['"](.+)["']$/, '$1')
Unwrap(pattern) ==
    IF /\ Len(pattern) > 2
       /\ pattern[1] \in {"'", "\""}
       /\ pattern[Len(pattern)] \in {"'", "\""}
    THEN SubSeq(pattern, 2, Len(pattern) - 1)
    ELSE pattern

RECURSIVE GlobMatch(_, _)
\* minimatch of the names of a path against the parts of a pattern: "**" is
\* any number of directories, "*.ext" any name with that ending; neither
\* matches a name that starts with a dot (dot: false)
GlobMatch(pat, names) ==
    IF Len(pat) = 0 THEN Len(names) = 0
    ELSE IF Head(pat) = "**"
         THEN \/ GlobMatch(Tail(pat), names)
              \/ /\ Len(names) > 0
                 /\ ~Hidden(Head(names))
                 /\ GlobMatch(pat, Tail(names))
    ELSE IF Len(names) = 0 THEN FALSE
    ELSE IF Head(pat) = "*.css"
         THEN EndsWith(Head(names), ".css") /\ ~Hidden(Head(names))
              /\ GlobMatch(Tail(pat), Tail(names))
    ELSE IF Head(pat) = "*.js"
         THEN EndsWith(Head(names), ".js") /\ ~Hidden(Head(names))
              /\ GlobMatch(Tail(pat), Tail(names))
    ELSE Head(pat) = Head(names) /\ GlobMatch(Tail(pat), Tail(names))

\* glob(pattern, { posix: true }): the paths of the disk the pattern matches
Glob(d, pattern) ==
    SeqOf({q \in DOMAIN d : GlobMatch(Names(pattern), Names(q))})

\* the outcome of an async function: a value, or a rejection
Ok(v) == [ok |-> TRUE, val |-> v]
Rejected == [ok |-> FALSE, val |-> <<>>]

\* the directory branch without its .filter(endsWith(extension))
patternToFileNamesUnfiltered(d, pattern, ext) ==
    IF HasMagic(pattern) THEN Ok(Glob(d, Unwrap(pattern)))
    ELSE IF pattern \notin DOMAIN d THEN Rejected
    ELSE IF d[pattern].type = "dir"
         THEN Ok([i \in 1..Len(Readdir(d, pattern)) |->
                    PathJoin(pattern, Readdir(d, pattern)[i])])
    ELSE IF d[pattern].type = "file" THEN Ok(<<pattern>>)
    ELSE Ok(<<>>)

\* patternToFileNames(pattern, extension)
patternToFileNames(d, pattern, ext) ==
    IF HasMagic(pattern) THEN Ok(Glob(d, Unwrap(pattern)))
    ELSE IF pattern \notin DOMAIN d THEN Rejected
    ELSE IF d[pattern].type = "dir"
         THEN LET kept == SelectSeq(Readdir(d, pattern), LAMBDA f : EndsWith(f, ext))
              IN Ok([i \in 1..Len(kept) |-> PathJoin(pattern, kept[i])])
    ELSE IF d[pattern].type = "file" THEN Ok(<<pattern>>)
    ELSE Ok(<<>>)

----------------------------------------------------------------------------
(* Tag generation (the text of one fragment) *)

\* `<script src="${path}"></script>`, `<script ${attributes.join(' ')}></script>`
ScriptTag(attributes) ==
    <<Tok("text", <<"<script">> \o attributes \o <<"></script>">>, "js")>>

\* `<link rel="stylesheet" href="${path}">`
LinkTag(path) ==
    <<Tok("text", <<"<link rel=stylesheet href=">> \o path \o <<">">>, "css")>>

\* `<script>${content}</script>`: the content is not escaped
InlineScript(content) ==
    <<Tok("text", <<"<script>">>, "js")>> \o From("js", content)
        \o <<Tok("text", <<"</script>">>, "js")>>

\* `<style>${content}</style>`
InlineStyle(content) ==
    <<Tok("text", <<"<style>">>, "css")>> \o From("css", content)
        \o <<Tok("text", <<"</style>">>, "css")>>

----------------------------------------------------------------------------
(* The pipeline, stage by stage: postbuild.mjs:146-169 *)

\* the families of inputs the pipeline is run on
InjectFamily ==
    [docs |-> SeqsUpTo({TX, IJ, IC, EI}, MaxInjectLen),
     js   |-> {<<>>, <<ScriptTag(<<"src=", "a.js">>)>>,
               <<ScriptTag(<<"src=", "a.js">>), ScriptTag(<<"src=", "b.js">>)>>},
     css  |-> {<<>>, <<LinkTag(<<"c.css">>)>>},
     rem  |-> {<<>>},
     hash |-> {FALSE}]

RemoveFamily ==
    [docs |-> SeqsUpTo({TX, RM(<<"d">>), RM(<<"p">>), ER}, MaxRemoveLen),
     js   |-> {<<>>},
     css  |-> {<<>>},
     rem  |-> {<<>>, <<<<"d">>>>, <<<<"p">>>>, <<<<".">>>>, <<<<"x">>, <<"d">>>>},
     hash |-> {FALSE}]

MixFamily ==
    [docs |-> SeqsUpTo({TX, IJ, IC, EI, GH, RM(<<>>), RM(<<"d">>), ER},
                       MaxMixLen),
     js   |-> {<<>>},
     css  |-> {<<>>},
     rem  |-> {<<>>},
     hash |-> BOOLEAN]

InlineFamily ==
    [docs |-> SeqsUpTo({TX, IJ, IC, EI, RM(<<"d">>), ER}, MaxInlineLen),
     js   |-> {<<InlineScript(<<TX>>)>>, <<InlineScript(<<IJ>>)>>,
               <<InlineScript(<<IC, TX, EI>>)>>, <<InlineScript(<<GH>>)>>,
               <<InlineScript(<<RM(<<"d">>), TX, ER>>)>>},
     css  |-> {<<InlineStyle(<<TX>>)>>, <<InlineStyle(<<IJ, TX, EI>>)>>},
     rem  |-> {<<<<"d">>>>},
     hash |-> {TRUE}]

Families == {InjectFamily, RemoveFamily, MixFamily, InlineFamily}

PipeInit ==
    \E f \in Families :
        /\ input \in f.docs
        /\ jsFiles \in f.js
        /\ cssFiles \in f.css
        /\ \E r \in f.rem, h \in f.hash : options = [remove |-> r, hash |-> h]
        /\ removeCondition = <<>>
        /\ revision = <<>>
        /\ stream = <<>>
        /\ stageIn = <<>>
        /\ runs = 1
        /\ pc = "options"
        /\ disk = <<>>
        /\ extension = ""
        /\ listed = <<>>
        /\ globbed = <<>>
        /\ env = [source |-> "postbuild.mjs", git |-> "ok", start |-> <<>>]
        /\ exitCode = -1
        /\ stderr = <<>>
        /\ fileNames = [js |-> <<>>, css |-> <<>>]
        /\ rs = "none"
        /\ ws = "none"

\* postbuild.mjs:146-156: the remove condition, the revision, the read stream
Prepare ==
    /\ pc = "options"
    /\ removeCondition' = RemoveConditionOf(options.remove)
    /\ revision' = IF options.hash THEN HeadRevision(env.git) ELSE <<>>
    /\ stream' = input
    /\ stageIn' = input
    /\ pc' = "js"
    /\ UNCHANGED << options, jsFiles, cssFiles, input, runs, disk, resolveVars, runVars >>

Stage(at, out, next) ==
    /\ pc = at
    /\ stream' = out
    /\ stageIn' = stream
    /\ pc' = next
    /\ UNCHANGED << options, jsFiles, cssFiles, removeCondition, revision, input, runs,
                    disk, resolveVars, runVars >>

StageJs == Stage("js", ReplaceJs(stream, jsFiles), "css")

StageCss == Stage("css", ReplaceCss(stream, cssFiles), "hash")

StageHash == Stage("hash", ReplaceHash(stream, revision), "remove")

StageRemove == Stage("remove", ReplaceRemove(stream, removeCondition), "done")

\* the tool started a second time, with the same arguments, on output it
\* has injected fragments into
Rerun ==
    /\ pc = "done"
    /\ runs = 1
    /\ Len(jsFiles) > 0 \/ Len(cssFiles) > 0
    /\ input' = Plain(stream)
    /\ runs' = 2
    /\ pc' = "options"
    /\ UNCHANGED << options, jsFiles, cssFiles, removeCondition, revision, stream, stageIn,
                    disk, resolveVars, runVars >>

PipeNext == Prepare \/ StageJs \/ StageCss \/ StageHash \/ StageRemove \/ Rerun

SpecPipe == PipeInit /\ [][PipeNext]_vars

----------------------------------------------------------------------------
(* What the properties of the pipeline speak of *)

\* the first end marker after position i, 0 when there is none
RegionEnd(s, i, endk) ==
    LET J == {j \in (i+1)..Len(s) : s[j].k = endk}
    IN IF J = {} THEN 0 ELSE Min(J)

RECURSIVE IsRegionStart(_, _, _, _, _)
\* token i opens a region: a start marker of this kind and condition that an
\* end marker follows and that lies in no region opened before it
IsRegionStart(s, i, k, c, endk) ==
    /\ s[i].k = k
    /\ s[i].c = c
    /\ RegionEnd(s, i, endk) # 0
    /\ \A h \in 1..(i-1) :
          IsRegionStart(s, h, k, c, endk) => RegionEnd(s, h, endk) < i

InRegion(s, i, k, c, endk) ==
    \E h \in 1..i : IsRegionStart(s, h, k, c, endk) /\ i <= RegionEnd(s, h, endk)

RECURSIVE Flatten(_)
Flatten(ss) == IF Len(ss) = 0 THEN <<>> ELSE Head(ss) \o Flatten(Tail(ss))

\* s with every region, markers included, replaced by repl and all other text kept
RegionsReplaced(s, k, c, endk, repl) ==
    Flatten([i \in 1..Len(s) |->
        IF IsRegionStart(s, i, k, c, endk) THEN repl
        ELSE IF InRegion(s, i, k, c, endk) THEN <<>>
        ELSE <<s[i]>>])

HasKind(s, k) == \E i \in 1..Len(s) : s[i].k = k

HasRegion(s, k, endk) ==
    \E i \in 1..Len(s) : s[i].k = k /\ RegionEnd(s, i, endk) # 0

----------------------------------------------------------------------------
(* C1 *)

\* C1: each inject stage replaces every region of its kind in the text it
\* reads (for the JS stage the input document; for the CSS stage the same
\* document when no JS was generated), markers included, by the fragments
\* joined with newlines; a region ends at the first endinject after its
\* start marker and all text outside the regions is kept.
InjectReplacesEveryRegion ==
    /\ (pc = "css" /\ Len(jsFiles) > 0) =>
          /\ stageIn = input
          /\ stream = RegionsReplaced(input, "inject:js", <<>>, "endinject",
                                      Join(jsFiles, "js"))
    /\ (pc = "hash" /\ Len(cssFiles) > 0) =>
          /\ Len(jsFiles) = 0 => stageIn = input
          /\ stream = RegionsReplaced(stageIn, "inject:css", <<>>, "endinject",
                                      Join(cssFiles, "css"))

\* two adjacent JS regions were replaced separately by two joined fragments
AdjacentRegionsReplaced ==
    /\ pc = "css"
    /\ Len(jsFiles) = 2
    /\ input = <<IJ, EI, IJ, EI>>
    /\ stream = Join(jsFiles, "js") \o Join(jsFiles, "js")

----------------------------------------------------------------------------
(* C2 *)

\* no character of the condition is special in a regular expression
Literal(cond) == \A i \in 1..Len(cond) : cond[i] # "."

\* the last colon-separated token of --remove ('' when it is not given)
LastToken(rem) == IF Len(rem) = 0 THEN <<>> ELSE rem[Len(rem)]

\* the regions of the other conditions: a start marker whose condition is
\* not c, up to the first endremove after it
OtherRegions(s, c) ==
    {<<i, RegionEnd(s, i, "endremove")>> :
        i \in {h \in 1..Len(s) : /\ s[h].k = "remove"
                                 /\ s[h].c # c
                                 /\ RegionEnd(s, h, "endremove") # 0}}

\* C2 as claimed: for every condition c the remove stage deletes exactly the
\* regions remove:c, and every region of another condition, however the
\* regions are arranged, keeps all its tokens.
RemoveDeletesOnlyItsCondition ==
    (pc = "done" /\ Len(options.remove) > 0) =>
        LET c == LastToken(options.remove)
        IN /\ stream = RegionsReplaced(stageIn, "remove", c, "endremove", <<>>)
           /\ \A r \in OtherRegions(stageIn, c) :
                 \A i \in r[1]..r[2] : ~InRegion(stageIn, i, "remove", c, "endremove")

\* C2 (amended): for every condition c spelled without regular-expression
\* metacharacters, the remove stage deletes every region remove:c (from its
\* start marker to the first endremove after it), markers included, and keeps
\* all other text: every region of another condition that no region remove:c
\* overlaps is in the output unchanged.
RemoveDeletesLiteralCondition ==
    (pc = "done" /\ Len(options.remove) > 0 /\ Literal(LastToken(options.remove))) =>
        LET c == LastToken(options.remove)
        IN /\ stream = RegionsReplaced(stageIn, "remove", c, "endremove", <<>>)
           /\ \A r \in OtherRegions(stageIn, c) :
                 (\A i \in r[1]..r[2] : ~InRegion(stageIn, i, "remove", c, "endremove"))
                 => \E a \in 0..Len(stream) :
                       /\ a + (r[2] - r[1]) + 1 <= Len(stream)
                       /\ SubSeq(stream, a + 1, a + (r[2] - r[1]) + 1)
                            = SubSeq(stageIn, r[1], r[2])

\* the scenario of the specification: the development block removed, the
\* production block next to it kept with its markers
AdjacentConditionsKept ==
    /\ pc = "done"
    /\ options.remove = << <<"x">>, <<"d">> >>
    /\ input = <<RM(<<"d">>), ER, RM(<<"p">>), ER>>
    /\ stream = <<RM(<<"p">>), ER>>

----------------------------------------------------------------------------
(* C3 *)

NoOptions ==
    /\ Len(jsFiles) = 0
    /\ Len(cssFiles) = 0
    /\ options.remove = <<>>
    /\ ~options.hash

\* the document with each git-hash marker replaced by the empty comment
EmptyHashed(s) ==
    [i \in 1..Len(s) |->
        IF s[i].k = "inject:git-hash" THEN Tok("comment", <<>>, "in") ELSE s[i]]

\* C3 as claimed: without css, js, remove and hash options the output is the
\* input with each git-hash marker replaced by the empty comment, whatever
\* markers the input holds.
RoundTripAnyMarkers ==
    (pc = "done" /\ runs = 1 /\ NoOptions) => Plain(stream) = EmptyHashed(input)

\* C3 (amended): the same, for input whose remove markers all carry a
\* non-empty condition token.
RoundTripNonEmptyConditions ==
    (/\ pc = "done" /\ runs = 1 /\ NoOptions
     /\ \A i \in 1..Len(input) : input[i].k = "remove" => Len(input[i].c) > 0)
    => Plain(stream) = EmptyHashed(input)

\* a document with an inject region, a remove marker and a git-hash marker went through
RoundTripOfMixedMarkers ==
    /\ pc = "done" /\ runs = 1 /\ NoOptions
    /\ input = <<IC, EI, RM(<<"d">>), GH>>
    /\ Plain(stream) = <<IC, EI, RM(<<"d">>), Tok("comment", <<>>, "in")>>

----------------------------------------------------------------------------
(* C9 *)

\* the first run had a region of its kind to replace
InjectedJs(s) == Len(jsFiles) > 0 /\ HasRegion(s, "inject:js", "endinject")

InjectedCss(s) == Len(cssFiles) > 0 /\ HasRegion(s, "inject:css", "endinject")

\* no generated fragment holds an inject or endinject marker
FragmentsHoldNoInjectMarker ==
    \A fs \in {jsFiles, cssFiles} : \A n \in 1..Len(fs) : \A i \in 1..Len(fs[n]) :
        fs[n][i].k \notin {"inject:js", "inject:css", "endinject"}

\* C9 as claimed: after a run that injected a non-empty fragment list the
\* output holds no inject marker of that kind, and a second run with the
\* same inputs leaves the document unchanged.
InjectMarkersConsumed ==
    /\ (pc = "done" /\ runs = 1) =>
          /\ InjectedJs(input) => ~HasKind(stream, "inject:js")
          /\ InjectedCss(ReplaceJs(input, jsFiles)) => ~HasKind(stream, "inject:css")
    /\ (pc = "done" /\ runs = 2) => Plain(stream) = input

\* C9 (amended): when no generated fragment holds an inject or endinject
\* marker, the output of a run that injected a non-empty fragment list holds
\* no region of that kind (a start marker that no endinject follows may
\* remain), and a second run with the same inputs leaves the document unchanged.
InjectRegionsConsumed ==
    FragmentsHoldNoInjectMarker =>
        /\ (pc = "done" /\ runs = 1) =>
              /\ InjectedJs(input) => ~HasRegion(stream, "inject:js", "endinject")
              /\ InjectedCss(ReplaceJs(input, jsFiles)) =>
                    ~HasRegion(stream, "inject:css", "endinject")
        /\ (pc = "done" /\ runs = 2) => Plain(stream) = input

\* a second run ended on a document the first run had injected JS into
SecondRunOnInjected ==
    /\ pc = "done" /\ runs = 2
    /\ FragmentsHoldNoInjectMarker
    /\ Len(jsFiles) > 0
    /\ \E i \in 1..Len(input) : input[i].o = "in" /\ input[i].c = <<"<script", "src=", "a.js", "></script>">>
    /\ HasKind(input, "inject:js")

----------------------------------------------------------------------------
(* C10 *)

\* the maximal runs of tokens of origin o, as <<first, last>>
RunsOf(s, o) ==
    {<<a, b>> \in (1..Len(s)) \X (1..Len(s)) :
        /\ a <= b
        /\ \A i \in a..b : s[i].o = o
        /\ a = 1 \/ s[a-1].o # o
        /\ b = Len(s) \/ s[b+1].o # o}

\* r is the inserted text, once or several times in a row
WholeCopies(r, inserted) ==
    /\ Len(inserted) > 0
    /\ Len(r) % Len(inserted) = 0
    /\ \A i \in 1..Len(r) : r[i] = inserted[((i - 1) % Len(inserted)) + 1]

\* every text of origin o in s is the inserted text, whole
AsInserted(s, o, inserted) ==
    \A r \in RunsOf(s, o) : WholeCopies(SubSeq(s, r[1], r[2]), inserted)

\* the markers a stage after the JS (CSS) stage matches
AfterJs(t) ==
    \/ t.k \in {"inject:css", "endinject", "inject:git-hash", "endremove"}
    \/ StartsAt("remove", RemoveConditionOf(options.remove), t)

AfterCss(t) ==
    \/ t.k \in {"inject:git-hash", "endremove"}
    \/ StartsAt("remove", RemoveConditionOf(options.remove), t)

\* C10 as claimed: whatever the fragments hold, the text the stages inserted
\* is in the final output as it was inserted.
InsertedTextNeverRescanned ==
    (pc = "done" /\ runs = 1) =>
        /\ AsInserted(stream, "js", Join(jsFiles, "js"))
        /\ AsInserted(stream, "css", Join(cssFiles, "css"))
        /\ AsInserted(stream, "rev", <<Tok("comment", revision, "rev")>>)

\* C10 (amended): a stage never scans its own replacements again, but every
\* later stage scans them.  Text a stage inserted is in the final output as
\* it was inserted (or is gone whole, with a region of a later stage around
\* it) when it holds no marker that a later stage matches; after the stage
\* itself it is there as inserted whatever it holds.
InsertedTextKeptByOwnStage ==
    /\ pc = "css" => AsInserted(stream, "js", Join(jsFiles, "js"))
    /\ pc = "hash" => AsInserted(stream, "css", Join(cssFiles, "css"))
    /\ (pc = "done" /\ runs = 1) =>
          /\ (\A n \in 1..Len(jsFiles) : \A i \in 1..Len(jsFiles[n]) : ~AfterJs(jsFiles[n][i]))
                => AsInserted(stream, "js", Join(jsFiles, "js"))
          /\ (\A n \in 1..Len(cssFiles) : \A i \in 1..Len(cssFiles[n]) : ~AfterCss(cssFiles[n][i]))
                => AsInserted(stream, "css", Join(cssFiles, "css"))
          /\ AsInserted(stream, "rev", <<Tok("comment", revision, "rev")>>)

\* an inline script that holds an inject:js marker was inserted before an
\* endinject and is in the final output whole
MarkerInFragmentNotRescanned ==
    /\ pc = "done" /\ runs = 1
    /\ input = <<IJ, EI, EI>>
    /\ jsFiles = <<InlineScript(<<IJ>>)>>
    /\ stream = InlineScript(<<IJ>>) \o <<EI>>

----------------------------------------------------------------------------
(* Resolving a directory and the glob over it: postbuild.mjs:27-43 *)

Body(n) == <<Tok("text", <<n>>, "in")>>

\* what may lie under the directory d, each entry or not; e lies next to d
TreeEntries ==
    {<< <<"d", "/", "a.css">>, File(Body("a")) >>,
     << <<"d", "/", "c.css">>, File(Body("c")) >>,
     << <<"d", "/", "b.js">>, File(Body("b")) >>,
     << <<"d", "/", ".h.css">>, File(Body("h")) >>,
     << <<"d", "/", "t.css">>, Dir >>,
     << <<"d", "/", "s">>, Dir >>,
     << <<"d", "/", "s", "/", "c.css">>, File(Body("c")) >>,
     << <<"d", "/", "s", "/", "b.js">>, File(Body("b")) >>,
     << <<"e", "/", "a.css">>, File(Body("a")) >>}

\* the disk that holds the directories d and e and the entries E
TreeOf(E) ==
    [q \in {<<"d">>, <<"e">>} \cup {e[1] : e \in E} |->
        IF q \in {<<"d">>, <<"e">>} THEN Dir
        ELSE (CHOOSE e \in E : e[1] = q)[2]]

\* every entry lies in a directory of the tree
Trees ==
    {TreeOf(E) : E \in {E \in SUBSET TreeEntries :
        \A e \in E : Len(e[1]) = 5 => \E f \in E : f[1] = <<"d", "/", "s">>}}

GlobOver(dir, ext) ==
    dir \o <<"/", "**", "/">> \o <<IF ext = ".css" THEN "*.css" ELSE "*.js">>

ResolveInit ==
    /\ disk \in Trees
    /\ extension \in {".css", ".js"}
    /\ listed = <<>>
    /\ globbed = <<>>
    /\ pc = "directory"
    /\ options = [remove |-> <<>>, hash |-> FALSE]
    /\ jsFiles = <<>>
    /\ cssFiles = <<>>
    /\ removeCondition = <<>>
    /\ revision = <<>>
    /\ input = <<>>
    /\ stream = <<>>
    /\ stageIn = <<>>
    /\ runs = 1
    /\ env = [source |-> "postbuild.mjs", git |-> "ok", start |-> <<>>]
    /\ exitCode = -1
    /\ stderr = <<>>
    /\ fileNames = [js |-> <<>>, css |-> <<>>]
    /\ rs = "none"
    /\ ws = "none"

\* patternToFileNames('d', extension)
ResolveDirectory ==
    /\ pc = "directory"
    /\ listed' = patternToFileNames(disk, <<"d">>, extension).val
    /\ pc' = "glob"
    /\ UNCHANGED << options, jsFiles, cssFiles, removeCondition, revision, pipeVars,
                    disk, extension, globbed, runVars >>

\* patternToFileNames('d/**/*.ext', extension)
ResolveGlob ==
    /\ pc = "glob"
    /\ globbed' = patternToFileNames(disk, GlobOver(<<"d">>, extension), extension).val
    /\ pc' = "resolved"
    /\ UNCHANGED << options, jsFiles, cssFiles, removeCondition, revision, pipeVars,
                    disk, extension, listed, runVars >>

ResolveNext == ResolveDirectory \/ ResolveGlob

SpecResolve == ResolveInit /\ [][ResolveNext]_vars

----------------------------------------------------------------------------
(* C8 *)

\* C8 as claimed: for every directory tree the glob dir/**/*.ext yields the
\* set of paths that resolving the directory dir with that extension yields.
GlobEqualsDirectory ==
    pc = "resolved" => Range(globbed) = Range(listed)

\* every entry below dir with the extension is an immediate entry of dir
\* whose name does not start with a dot
FlatAndVisible(d, dir, ext) ==
    \A q \in DOMAIN d :
        (/\ Len(q) > Len(dir) /\ SubSeq(q, 1, Len(dir)) = dir
         /\ EndsWith(q[Len(q)], ext))
        => Len(q) = Len(dir) + 2 /\ ~Hidden(q[Len(q)])

\* C8 (amended): for every directory tree in which every entry below dir
\* whose name ends with ext is an immediate entry of dir with a name that
\* does not start with a dot, the glob dir/**/*.ext yields the set of paths
\* that resolving dir with that extension yields: the entries of dir with
\* that ending, each joined to dir.
GlobEqualsFlatDirectory ==
    (pc = "resolved" /\ FlatAndVisible(disk, <<"d">>, extension)) =>
        /\ Range(globbed) = Range(listed)
        /\ Range(listed) = {q \in DOMAIN disk :
                              /\ Len(q) = 3 /\ q[1] = "d" /\ q[2] = "/"
                              /\ EndsWith(q[3], extension)}
        /\ Len(listed) = Cardinality(Range(listed))

\* a directory with two stylesheets, a script and a subdirectory was resolved both ways
FlatDirectoryResolved ==
    /\ pc = "resolved"
    /\ extension = ".css"
    /\ FlatAndVisible(disk, <<"d">>, extension)
    /\ <<"d", "/", "s", "/", "b.js">> \in DOMAIN disk
    /\ Range(globbed) = {<<"d", "/", "a.css">>, <<"d", "/", "c.css">>, <<"d", "/", "t.css">>}

----------------------------------------------------------------------------
(* Tag generation from a pattern: postbuild.mjs:20-85, part_000:22-93 *)

\* crypto.createHash('sha').update(content).digest('hex')
Sha(content) ==
    IF content = Body("A") THEN "sha(A)"
    ELSE IF content = Body("B") THEN "sha(B)"
    ELSE IF content = Body("C") THEN "sha(C)"
    ELSE IF content = Body("Z") THEN "sha(Z)"
    ELSE "sha(?)"

\* fsPromise.readFile(path, 'utf-8')
ReadFile(d, path) ==
    IF path \in DOMAIN d /\ d[path].type = "file" THEN Ok(d[path].content) ELSE Rejected

\* appendETagSHAToFilename(filename)
appendETagSHAToFilename(d, filename) ==
    LET content == ReadFile(d, filename)
    IN IF content.ok THEN Ok(filename \o <<"?etag=", Sha(content.val)>>) ELSE Rejected

\* the path a linked tag refers to: path.slice(ignore.length), then the etag
LinkedPath(d, fileName, o) ==
    LET path == IF Len(o.ignore) > 0
                THEN SubSeq(fileName, Len(o.ignore) + 1, Len(fileName))
                ELSE fileName
    IN IF o.etag THEN appendETagSHAToFilename(d, path) ELSE Ok(path)

\* both attributes pushed, each under its own if
ScriptAttributesBoth(source, path, o) ==
    <<"src=">> \o path
        \o (IF o.async THEN <<"async">> ELSE <<>>)
        \o (IF o.defer THEN <<"defer">> ELSE <<>>)

\* part_000:62-68 attributes.join(' '); postbuild.mjs:60 has the src alone
ScriptAttributes(source, path, o) ==
    IF source = "part_000"
    THEN <<"src=">> \o path
            \o (IF o.async THEN <<"async">> ELSE IF o.defer THEN <<"defer">> ELSE <<>>)
    ELSE <<"src=">> \o path

\* the body of the loop of filePatternToScriptTags
ScriptTagOf(d, source, fileName, o) ==
    IF o.inline
    THEN LET content == ReadFile(d, fileName)
         IN IF content.ok THEN Ok(InlineScript(content.val)) ELSE Rejected
    ELSE LET path == LinkedPath(d, fileName, o)
         IN IF path.ok THEN Ok(ScriptTag(ScriptAttributes(source, path.val, o)))
            ELSE Rejected

\* the body of the loop of filePatternToStyleTags
StyleTagOf(d, fileName, o) ==
    IF o.inline
    THEN LET content == ReadFile(d, fileName)
         IN IF content.ok THEN Ok(InlineStyle(content.val)) ELSE Rejected
    ELSE LET path == LinkedPath(d, fileName, o)
         IN IF path.ok THEN Ok(LinkTag(path.val)) ELSE Rejected

\* filePatternToScriptTags(pattern, options): the tags in the order of the files
filePatternToScriptTags(d, source, pattern, o) ==
    LET names == patternToFileNames(d, pattern, ".js")
    IN IF ~names.ok THEN Rejected
       ELSE IF \E i \in 1..Len(names.val) : ~ScriptTagOf(d, source, names.val[i], o).ok
            THEN Rejected
       ELSE Ok([i \in 1..Len(names.val) |-> ScriptTagOf(d, source, names.val[i], o).val])

\* filePatternToStyleTags(pattern, options)
filePatternToStyleTags(d, pattern, o) ==
    LET names == patternToFileNames(d, pattern, ".css")
    IN IF ~names.ok THEN Rejected
       ELSE IF \E i \in 1..Len(names.val) : ~StyleTagOf(d, names.val[i], o).ok
            THEN Rejected
       ELSE Ok([i \in 1..Len(names.val) |-> StyleTagOf(d, names.val[i], o).val])

----------------------------------------------------------------------------
(* One run of the tool: postbuild.mjs:87-169, part_000:95-185 *)

Document == <<IC, EI, TX, IJ, EI, GH>>

\* the working directory: the input file, a directory of assets, and a file
\* a.js of its own next to the directory
RunDisk ==
    (<<"i.html">> :> File(Document))
    @@ (<<"d">> :> Dir)
    @@ (<<"d", "/", "a.js">> :> File(Body("A")))
    @@ (<<"d", "/", "b.js">> :> File(Body("B")))
    @@ (<<"d", "/", "a.css">> :> File(Body("C")))
    @@ (<<"a.js">> :> File(Body("Z")))

Silent == [msg |-> "", arg |-> <<>>]

RunInit ==
    /\ env \in [source : {"postbuild.mjs", "part_000"}, git : {"ok", "fail"},
                start : {RunDisk}]
    /\ options \in [input : {<<>>, <<"i.html">>, <<"d">>, <<"n.html">>},
                    output : {<<>>, <<"o.html">>},
                    js : {<<>>, <<"d", "/", "a.js">>, <<"d">>, <<"n.js">>},
                    css : {<<>>, <<"d", "/", "a.css">>, <<"n.css">>},
                    remove : {<<>>},
                    ignore : {<<>>, <<"d", "/">>},
                    hash : BOOLEAN, etag : BOOLEAN, inline : BOOLEAN,
                    async : BOOLEAN, defer : BOOLEAN]
    /\ env.git = "fail" => options.hash
    /\ disk = env.start
    /\ pc = "parse"
    /\ exitCode = -1
    /\ stderr = Silent
    /\ fileNames = [js |-> <<>>, css |-> <<>>]
    /\ jsFiles = <<>>
    /\ cssFiles = <<>>
    /\ removeCondition = <<>>
    /\ revision = <<>>
    /\ rs = "none"
    /\ ws = "none"
    /\ input = <<>>
    /\ stream = <<>>
    /\ stageIn = <<>>
    /\ runs = 1
    /\ extension = ""
    /\ listed = <<>>
    /\ globbed = <<>>

\* the process ends: process.exit(1) of handleError, or an uncaught error
Exit(code, msg) ==
    /\ pc' = "exit"
    /\ exitCode' = code
    /\ stderr' = msg

\* handleError(message)
handleError(msg) == Exit(1, msg)

\* program.option(...).parse(process.argv): postbuild.mjs declares neither
\* --async nor --defer, and commander ends the process on an unknown option
ParseArgs ==
    /\ pc = "parse"
    /\ IF env.source = "postbuild.mjs" /\ (options.async \/ options.defer)
       THEN Exit(1, [msg |-> "error: unknown option", arg |-> <<>>])
       ELSE pc' = "input" /\ UNCHANGED << exitCode, stderr >>
    /\ UNCHANGED << options, jsFiles, cssFiles, removeCondition, revision, pipeVars,
                    disk, resolveVars, env, fileNames, rs, ws >>

\* postbuild.mjs:107-122
CheckInput ==
    /\ pc = "input"
    /\ IF options.input = <<>>
       THEN handleError([msg |-> "Please specify an input file", arg |-> <<>>])
       ELSE IF options.input \notin DOMAIN disk
       THEN handleError([msg |-> "File not found", arg |-> options.input])
       ELSE IF disk[options.input].type = "dir"
       THEN handleError([msg |-> "is a directory, please specify an input file",
                         arg |-> options.input])
       ELSE IF disk[options.input].type # "file"
       THEN handleError([msg |-> "File not found", arg |-> options.input])
       ELSE pc' = "js" /\ UNCHANGED << exitCode, stderr >>
    /\ UNCHANGED << options, jsFiles, cssFiles, removeCondition, revision, pipeVars,
                    disk, resolveVars, env, fileNames, rs, ws >>

\* the catch block logs the message and the run goes on with the empty list
ReportNotFoundAndGoOn(source, option, pattern) ==
    /\ pc' = "prepare"
    /\ exitCode' = exitCode
    /\ stderr' = [msg |-> "File or folder not found", arg |-> pattern]

\* the catch blocks: part_000 names options.js / options.css; postbuild.mjs
\* names the undeclared js / css, and evaluating the template throws a
\* ReferenceError that nothing catches
ReportNotFound(source, option, pattern) ==
    IF source = "part_000"
    THEN handleError([msg |-> "File or folder not found", arg |-> pattern])
    ELSE Exit(1, [msg |-> "ReferenceError", arg |-> <<option, " is not defined">>])

\* the outputFile of postbuild.mjs:124
outputFile == IF options.output = <<>> THEN options.input ELSE options.output

\* postbuild.mjs:126-134
GenerateJs ==
    /\ pc = "js"
    /\ LET tags == filePatternToScriptTags(disk, env.source, options.js, options)
       IN IF options.js = <<>>
          THEN pc' = "css" /\ UNCHANGED << jsFiles, fileNames, exitCode, stderr >>
          ELSE IF tags.ok
          THEN /\ jsFiles' = tags.val
               /\ fileNames' = [fileNames EXCEPT
                                  !.js = patternToFileNames(disk, options.js, ".js").val]
               /\ pc' = "css"
               /\ UNCHANGED << exitCode, stderr >>
          ELSE ReportNotFound(env.source, "js", options.js)
               /\ UNCHANGED << jsFiles, fileNames >>
    /\ UNCHANGED << options, cssFiles, removeCondition, revision, pipeVars,
                    disk, resolveVars, env, rs, ws >>

\* postbuild.mjs:136-144
GenerateCss ==
    /\ pc = "css"
    /\ LET tags == filePatternToStyleTags(disk, options.css, options)
       IN IF options.css = <<>>
          THEN pc' = "prepare" /\ UNCHANGED << cssFiles, fileNames, exitCode, stderr >>
          ELSE IF tags.ok
          THEN /\ cssFiles' = tags.val
               /\ fileNames' = [fileNames EXCEPT
                                  !.css = patternToFileNames(disk, options.css, ".css").val]
               /\ pc' = "prepare"
               /\ UNCHANGED << exitCode, stderr >>
          ELSE ReportNotFound(env.source, "css", options.css)
               /\ UNCHANGED << cssFiles, fileNames >>
    /\ UNCHANGED << options, jsFiles, removeCondition, revision, pipeVars,
                    disk, resolveVars, env, rs, ws >>

\* postbuild.mjs:146-154: a rejection of the git command is caught nowhere
ReadRevision ==
    /\ pc = "prepare"
    /\ removeCondition' = RemoveConditionOf(options.remove)
    /\ IF options.hash /\ ~GitRevParse(env.git).ok
       THEN Exit(1, [msg |-> "Command failed: git rev-parse HEAD", arg |-> <<>>])
            /\ UNCHANGED revision
       ELSE /\ revision' = IF options.hash THEN HeadRevision(env.git) ELSE <<>>
            /\ pc' = "pipe"
            /\ UNCHANGED << exitCode, stderr >>
    /\ UNCHANGED << options, jsFiles, cssFiles, pipeVars,
                    disk, resolveVars, env, fileNames, rs, ws >>

\* postbuild.mjs:156-169: both streams are created; each opens its file later
CreateStreams ==
    /\ pc = "pipe"
    /\ rs' = "opening"
    /\ ws' = "opening"
    /\ pc' = "streaming"
    /\ UNCHANGED << options, jsFiles, cssFiles, removeCondition, revision, pipeVars,
                    disk, resolveVars, env, exitCode, stderr, fileNames >>

\* fs.open(inputFile, 'r') completes
OpenRead ==
    /\ pc = "streaming"
    /\ rs = "opening"
    /\ rs' = "open"
    /\ UNCHANGED << pc, options, jsFiles, cssFiles, removeCondition, revision, pipeVars,
                    disk, resolveVars, env, exitCode, stderr, fileNames, ws >>

\* fs.open(outputFile, 'w') completes: the file is created or truncated
OpenWrite ==
    /\ pc = "streaming"
    /\ ws = "opening"
    /\ ws' = "open"
    /\ disk' = (outputFile :> File(<<>>)) @@ disk
    /\ UNCHANGED << pc, options, jsFiles, cssFiles, removeCondition, revision, pipeVars,
                    resolveVars, env, exitCode, stderr, fileNames, rs >>

\* fs.read at the position after the text read so far: a chunk, or the end
\* of the file, on which the four stages flush
ReadChunk ==
    /\ pc = "streaming"
    /\ rs = "open"
    /\ LET content == disk[options.input].content
           data == SubSeq(content, Len(input) + 1, Len(content))
       IN IF Len(data) > 0
          THEN /\ input' = input \o data
               /\ UNCHANGED << rs, stream >>
          ELSE /\ rs' = "ended"
               /\ stream' = Transform(input, jsFiles, cssFiles, revision, removeCondition)
               /\ UNCHANGED input
    /\ UNCHANGED << pc, options, jsFiles, cssFiles, removeCondition, revision, stageIn, runs,
                    disk, resolveVars, env, exitCode, stderr, fileNames, ws >>

\* the write stream writes what the pipe delivered and closes; the process ends
WriteOut ==
    /\ pc = "streaming"
    /\ rs = "ended"
    /\ ws = "open"
    /\ disk' = (outputFile :> File(Plain(stream))) @@ disk
    /\ ws' = "closed"
    /\ pc' = "done"
    /\ exitCode' = 0
    /\ UNCHANGED << options, jsFiles, cssFiles, removeCondition, revision, pipeVars,
                    resolveVars, env, stderr, fileNames, rs >>

RunNext ==
    \/ ParseArgs \/ CheckInput \/ GenerateJs \/ GenerateCss \/ ReadRevision
    \/ CreateStreams \/ OpenRead \/ OpenWrite \/ ReadChunk \/ WriteOut

SpecRun == RunInit /\ [][RunNext]_vars

----------------------------------------------------------------------------
(* C4 *)

\* C4: when --output is omitted the run rewrites the input file in place:
\* however the opens, the reads and the writes of the two streams on that
\* file interleave, the file finally holds the transform of the content it
\* had before the run.
InPlaceRewriteKeepsInput ==
    (pc = "done" /\ options.output = <<>>) =>
        /\ outputFile = options.input
        /\ disk[options.input].content =
              Plain(Transform(env.start[options.input].content,
                              jsFiles, cssFiles, revision, removeCondition))

----------------------------------------------------------------------------
(* C5 *)

ParsesArgs == ~(env.source = "postbuild.mjs" /\ (options.async \/ options.defer))

InputIsFile ==
    options.input \in DOMAIN env.start /\ env.start[options.input].type = "file"

\* a pattern without glob characters that names nothing on the disk
MissingPath(pattern) ==
    pattern # <<>> /\ ~HasMagic(pattern) /\ pattern \notin DOMAIN env.start

\* C5: a run whose --js (or, the JS step passed, --css) pattern is a
\* non-glob path that does not exist ends with exit code 1 and the message
\* "File or folder '<pattern>' not found" on stderr; it never goes on with
\* an empty list of files.
MissingPatternReported ==
    /\ (ParsesArgs /\ InputIsFile /\ MissingPath(options.js)
        /\ pc \notin {"parse", "input", "js"})
       => /\ pc = "exit"
          /\ exitCode = 1
          /\ stderr = [msg |-> "File or folder not found", arg |-> options.js]
    /\ (ParsesArgs /\ InputIsFile /\ options.js = <<>> /\ MissingPath(options.css)
        /\ pc \notin {"parse", "input", "js", "css"})
       => /\ pc = "exit"
          /\ exitCode = 1
          /\ stderr = [msg |-> "File or folder not found", arg |-> options.css]

----------------------------------------------------------------------------
(* C6 *)

\* the path a linked tag shows for the resolved file f, before the etag
EmittedPath(f) ==
    IF Len(options.ignore) > 0 THEN SubSeq(f, Len(options.ignore) + 1, Len(f)) ELSE f

\* the etag of the resolved file f itself
EtagOf(f) == <<"?etag=", Sha(env.start[f].content)>>

\* C6: in linked mode with --etag, with or without an ignore prefix, the
\* href/src of every resolved asset file f is the emitted path followed by
\* ?etag= and the digest of the content of f.
EtagIsDigestOfResolvedFile ==
    (options.etag /\ ~options.inline) =>
        /\ \A n \in 1..Len(jsFiles) :
              /\ n <= Len(fileNames.js)
              /\ jsFiles[n] = ScriptTag(ScriptAttributes(env.source,
                     EmittedPath(fileNames.js[n]) \o EtagOf(fileNames.js[n]), options))
        /\ \A n \in 1..Len(cssFiles) :
              /\ n <= Len(fileNames.css)
              /\ cssFiles[n] = LinkTag(EmittedPath(fileNames.css[n])
                                         \o EtagOf(fileNames.css[n]))

----------------------------------------------------------------------------
(* C7 *)

\* the attribute is one of the words of the tag
Carries(tag, attribute) == \E i \in 1..Len(tag[1].c) : tag[1].c[i] = attribute

\* C7: every linked script tag carries async if --async was asked for,
\* otherwise defer if --defer was asked for, and never both.
ScriptAttributeFollowsFlags ==
    ~options.inline =>
        \A n \in 1..Len(jsFiles) :
            /\ Carries(jsFiles[n], "async") <=> options.async
            /\ Carries(jsFiles[n], "defer") <=> (options.defer /\ ~options.async)
            /\ ~(Carries(jsFiles[n], "async") /\ Carries(jsFiles[n], "defer"))

\* both flags given: the two scripts of the directory carry async alone
AsyncWinsOverDefer ==
    /\ pc = "done"
    /\ options.async /\ options.defer /\ ~options.inline
    /\ Len(jsFiles) = 2
    /\ \A n \in 1..2 : Carries(jsFiles[n], "async") /\ ~Carries(jsFiles[n], "defer")

----------------------------------------------------------------------------
(* C11 *)

\* what the steps before the pipeline give on the disk of the start
TagsJs == filePatternToScriptTags(env.start, env.source, options.js, options)
TagsCss == filePatternToStyleTags(env.start, options.css, options)

JsResolved == options.js = <<>> \/ TagsJs.ok
CssResolved == options.css = <<>> \/ TagsCss.ok
RevisionRead == options.hash => GitRevParse(env.git).ok

\* argument parsing, input validation, asset resolution with tag generation
\* and the revision lookup all succeed
StepsSucceed ==
    ParsesArgs /\ InputIsFile /\ JsResolved /\ CssResolved /\ RevisionRead

\* the steps have completed: their results are in place
StepsCompleted ==
    /\ StepsSucceed
    /\ jsFiles = (IF options.js = <<>> THEN <<>> ELSE TagsJs.val)
    /\ cssFiles = (IF options.css = <<>> THEN <<>> ELSE TagsCss.val)
    /\ revision = (IF options.hash THEN HeadRevision(env.git) ELSE <<>>)
    /\ removeCondition = RemoveConditionOf(options.remove)

\* the output file is as it was at the start of the run (or as absent)
OutputUntouched ==
    /\ ws = "none"
    /\ DOMAIN disk = DOMAIN env.start
    /\ \A f \in DOMAIN disk : disk[f] = env.start[f]

\* the steps of a run before the pipeline, in the order of the code, and the
\* end of the process
Rank ==
    ("parse" :> 0) @@ ("input" :> 1) @@ ("js" :> 2) @@ ("css" :> 3)
    @@ ("prepare" :> 4) @@ ("exit" :> 5)

\* C11: the output file is opened, and so created or truncated, only after
\* input validation, js and css resolution with tag generation and the
\* revision lookup have all completed successfully; a run in which one of
\* them fails terminates (short of the exit it always has a step to take,
\* and each step takes it further down the sequence of steps to the exit)
\* with exit code 1, the output file never opened and the disk unchanged.
OutputOpenedAfterAllSteps ==
    /\ [](ws # "none" => StepsCompleted)
    /\ [][disk' # disk => ws' \in {"open", "closed"} /\ StepsCompleted]_vars
    /\ [](~StepsSucceed =>
            /\ OutputUntouched
            /\ pc \in DOMAIN Rank
            /\ pc # "exit" => ENABLED RunNext
            /\ pc = "exit" => exitCode = 1)
    /\ [][~StepsSucceed => Rank[pc'] > Rank[pc]]_vars

\* the last step before the pipeline fails: tags of both kinds are
\* generated, git fails, and the run has ended with nothing opened
RevisionFailsOutputUntouched ==
    /\ pc = "exit"
    /\ exitCode = 1
    /\ InputIsFile
    /\ Len(jsFiles) > 0 /\ Len(cssFiles) > 0
    /\ options.hash /\ ~GitRevParse(env.git).ok
    /\ options.output = <<>>
    /\ OutputUntouched

====
